---- MODULE Spec2Model ----
(***************************************************************************)
(* The knowledge-map graph of NetworkGraphModal (src/unnamed/part_002):    *)
(* the force simulation (runSimulation), the topology update effect, and   *)
(* the pointer / wheel / button handlers that drive them.                  *)
(*                                                                         *)
(* Numbers.  The code computes with IEEE doubles.  Here a coordinate is an *)
(* integer count of 1/Unit pixel, a zoom factor an integer count of        *)
(* thousandths, and every division rounds to the nearest integer (RDiv);   *)
(* Math.sqrt is the integer square root.  Radii, paddings and spring       *)
(* lengths keep the source's pixel values and are scaled where used.       *)
(***************************************************************************)
EXTENDS Integers, Sequences, FiniteSets, TLC

VARIABLES
    viewMode,          \* useState<ViewMode>('mindmap')
    documents,         \* the documents memo: sequence of [id, sections]
    graphNodes,        \* useState<GraphNode[]>([])
    graphLinks,        \* useState<GraphLink[]>([])
    expandedIds,       \* useState<Set<string>>(new Set())
    zoom,              \* useState(0.8), in thousandths
    pan,               \* useState({x: 0, y: 0}), in pixels
    isDraggingCanvas,  \* useState(false)
    lastPos,           \* useState({x: 0, y: 0}), client pixels
    draggedNodeId,     \* useState<string | null>(null)
    selectedSection,   \* useState<DocumentSection | null>(null)
    effectPending,     \* the topology effect is scheduled (a dependency changed)
    pressTarget,       \* browser: element the button went down on, for click
    clickPending,      \* browser: click event to dispatch after the mouseup
    pressTravel,       \* browser: pointer travel (px, capped) since the press
    relaxIn,           \* argument `nodes` of the last runSimulation call
    relaxK,            \* argument `iterations` of the last runSimulation call
    nEvents,           \* number of input events handled so far
    nRenders,          \* number of parent renders (new `nodes` prop) so far
    trip,              \* progress of an expand-then-collapse of one document
    fileSystem,        \* useState<Record<string, FileSystemNode>>({})
    currentPath,       \* useState<string[]>([])
    uuids              \* number of ids uuidv4() has returned so far

\* The state of the graph modal and the state of the project hook
modalVars == <<viewMode, documents, graphNodes, graphLinks, expandedIds, zoom,
               pan, isDraggingCanvas, lastPos, draggedNodeId, selectedSection,
               effectPending, pressTarget, clickPending, pressTravel,
               relaxIn, relaxK, nEvents, nRenders, trip>>

hookVars == <<fileSystem, currentPath, uuids>>

vars == <<modalVars, hookVars>>

Null == "null"

-----------------------------------------------------------------------------
(* Arithmetic *)

\* One pixel is Unit coordinate steps (GraphNode.x, GraphNode.y: number).
Unit == 16

Abs(a) == IF a < 0 THEN -a ELSE a

\* a / b rounded to the nearest integer, halves away from zero; b # 0.
RDiv(a, b) ==
    LET neg == (a < 0) # (b < 0)
        q == (2 * Abs(a) + Abs(b)) \div (2 * Abs(b))
    IN IF neg THEN -q ELSE q

RECURSIVE Newton(_, _)
Newton(n, g) ==
    LET h == (g + n \div g) \div 2
    IN IF h >= g THEN g ELSE Newton(n, h)

\* Math.sqrt on a non-negative integer: the largest r with r * r <= n.
Sqrt(n) ==
    IF n = 0 THEN 0
    ELSE Newton(n, IF n < 1024 THEN 32
                   ELSE IF n < 65536 THEN 256
                   ELSE IF n < 4194304 THEN 2048
                   ELSE IF n < 67108864 THEN 8192
                   ELSE 46340)

\* 10000 * Math.cos and Math.sin of the angle 2*pi*i/n + h/4 radians, keyed <<i, n, h>>.
CosE4 ==
       <<0, 1, -4>> :> 5403 @@ <<0, 1, -3>> :> 7317 @@ <<0, 1, -2>> :> 8776 @@
       <<0, 1, -1>> :> 9689 @@ <<0, 1, 0>> :> 10000 @@ <<0, 1, 1>> :> 9689 @@
       <<0, 1, 2>> :> 8776 @@ <<0, 1, 3>> :> 7317 @@ <<0, 1, 4>> :> 5403 @@
       <<0, 2, -4>> :> 5403 @@ <<0, 2, -3>> :> 7317 @@ <<0, 2, -2>> :> 8776 @@
       <<0, 2, -1>> :> 9689 @@ <<0, 2, 0>> :> 10000 @@ <<0, 2, 1>> :> 9689 @@
       <<0, 2, 2>> :> 8776 @@ <<0, 2, 3>> :> 7317 @@ <<0, 2, 4>> :> 5403 @@
       <<1, 2, -4>> :> -5403 @@ <<1, 2, -3>> :> -7317 @@ <<1, 2, -2>> :> -8776 @@
       <<1, 2, -1>> :> -9689 @@ <<1, 2, 0>> :> -10000 @@ <<1, 2, 1>> :> -9689 @@
       <<1, 2, 2>> :> -8776 @@ <<1, 2, 3>> :> -7317 @@ <<1, 2, 4>> :> -5403 @@
       <<0, 3, -4>> :> 5403 @@ <<0, 3, -3>> :> 7317 @@ <<0, 3, -2>> :> 8776 @@
       <<0, 3, -1>> :> 9689 @@ <<0, 3, 0>> :> 10000 @@ <<0, 3, 1>> :> 9689 @@
       <<0, 3, 2>> :> 8776 @@ <<0, 3, 3>> :> 7317 @@ <<0, 3, 4>> :> 5403 @@
       <<1, 3, -4>> :> 4586 @@ <<1, 3, -3>> :> 2245 @@ <<1, 3, -2>> :> -236 @@
       <<1, 3, -1>> :> -2702 @@ <<1, 3, 0>> :> -5000 @@ <<1, 3, 1>> :> -6987 @@
       <<1, 3, 2>> :> -8540 @@ <<1, 3, 3>> :> -9562 @@ <<1, 3, 4>> :> -9989 @@
       <<2, 3, -4>> :> -9989 @@ <<2, 3, -3>> :> -9562 @@ <<2, 3, -2>> :> -8540 @@
       <<2, 3, -1>> :> -6987 @@ <<2, 3, 0>> :> -5000 @@ <<2, 3, 1>> :> -2702 @@
       <<2, 3, 2>> :> -236 @@ <<2, 3, 3>> :> 2245 @@ <<2, 3, 4>> :> 4586

SinE4 ==
       <<0, 1, -4>> :> -8415 @@ <<0, 1, -3>> :> -6816 @@ <<0, 1, -2>> :> -4794 @@
       <<0, 1, -1>> :> -2474 @@ <<0, 1, 0>> :> 0 @@ <<0, 1, 1>> :> 2474 @@
       <<0, 1, 2>> :> 4794 @@ <<0, 1, 3>> :> 6816 @@ <<0, 1, 4>> :> 8415 @@
       <<0, 2, -4>> :> -8415 @@ <<0, 2, -3>> :> -6816 @@ <<0, 2, -2>> :> -4794 @@
       <<0, 2, -1>> :> -2474 @@ <<0, 2, 0>> :> 0 @@ <<0, 2, 1>> :> 2474 @@
       <<0, 2, 2>> :> 4794 @@ <<0, 2, 3>> :> 6816 @@ <<0, 2, 4>> :> 8415 @@
       <<1, 2, -4>> :> 8415 @@ <<1, 2, -3>> :> 6816 @@ <<1, 2, -2>> :> 4794 @@
       <<1, 2, -1>> :> 2474 @@ <<1, 2, 0>> :> 0 @@ <<1, 2, 1>> :> -2474 @@
       <<1, 2, 2>> :> -4794 @@ <<1, 2, 3>> :> -6816 @@ <<1, 2, 4>> :> -8415 @@
       <<0, 3, -4>> :> -8415 @@ <<0, 3, -3>> :> -6816 @@ <<0, 3, -2>> :> -4794 @@
       <<0, 3, -1>> :> -2474 @@ <<0, 3, 0>> :> 0 @@ <<0, 3, 1>> :> 2474 @@
       <<0, 3, 2>> :> 4794 @@ <<0, 3, 3>> :> 6816 @@ <<0, 3, 4>> :> 8415 @@
       <<1, 3, -4>> :> 8887 @@ <<1, 3, -3>> :> 9745 @@ <<1, 3, -2>> :> 9997 @@
       <<1, 3, -1>> :> 9628 @@ <<1, 3, 0>> :> 8660 @@ <<1, 3, 1>> :> 7154 @@
       <<1, 3, 2>> :> 5203 @@ <<1, 3, 3>> :> 2928 @@ <<1, 3, 4>> :> 472 @@
       <<2, 3, -4>> :> -472 @@ <<2, 3, -3>> :> -2928 @@ <<2, 3, -2>> :> -5203 @@
       <<2, 3, -1>> :> -7154 @@ <<2, 3, 0>> :> -8660 @@ <<2, 3, 1>> :> -9628 @@
       <<2, 3, 2>> :> -9997 @@ <<2, 3, 3>> :> -9745 @@ <<2, 3, 4>> :> -8887

Cos(i, n, h) == CosE4[<<i, n, h>>]
Sin(i, n, h) == SinE4[<<i, n, h>>]

-----------------------------------------------------------------------------
(* runSimulation *)

REPULSION == 500
\* SPRING_STRENGTH = 0.05, in hundredths
SPRING_STRENGTH == 5
COLLISION_PADDING == 20

\* simNodes.find(n => n.id === id): the index of the first match, 0 for undefined
RECURSIVE FindFrom(_, _, _)
FindFrom(ns, id, i) ==
    IF i > Len(ns) THEN 0
    ELSE IF ns[i].id = id THEN i
    ELSE FindFrom(ns, id, i + 1)

Find(ns, id) == FindFrom(ns, id, 1)

\* A write without the guard on the root
PushAny(n, fx, fy) == [n EXCEPT !.x = @ + fx, !.y = @ + fy]

\* The guarded writes `if (n.id !== 'root') { n.x += fx; n.y += fy; }`
Push(n, fx, fy) ==
    IF n.id # "root" THEN [n EXCEPT !.x = @ + fx, !.y = @ + fy] ELSE n

\* A repulsion step that pushes only the first node of the pair
RepulsePairOneSided(ns, i, j) ==
    LET a == ns[i]
        b == ns[j]
        dx == a.x - b.x
        dy == a.y - b.y
        sq == dx * dx + dy * dy
        distSq == IF sq = 0 THEN Unit * Unit ELSE sq
        dist == Sqrt(distSq)
        minDist == (a.radius + b.radius + 50) * Unit
        force == RDiv(REPULSION * 10 * Unit * Unit * Unit, distSq)
        fx == RDiv(dx * force, dist)
        fy == RDiv(dy * force, dist)
    IN IF a.id = "root" THEN ns
       ELSE IF distSq < (minDist * 2) * (minDist * 2)
            THEN [ns EXCEPT ![i] = Push(a, fx, fy)]
            ELSE ns

\* 1. Repulsion, the body of the inner loop for the pair (i, j)
RepulsePair(ns, i, j) ==
    LET a == ns[i]
        b == ns[j]
        dx == a.x - b.x
        dy == a.y - b.y
        sq == dx * dx + dy * dy
        distSq == IF sq = 0 THEN Unit * Unit ELSE sq
        dist == Sqrt(distSq)
        minDist == (a.radius + b.radius + 50) * Unit
        \* REPULSION / (distSq * 0.1)
        force == RDiv(REPULSION * 10 * Unit * Unit * Unit, distSq)
        fx == RDiv(dx * force, dist)
        fy == RDiv(dy * force, dist)
    IN IF a.id = "root" THEN ns
       \* dist < minDist * 2, decided on the squares
       ELSE IF distSq < (minDist * 2) * (minDist * 2)
            THEN [ns EXCEPT ![i] = Push(a, fx, fy), ![j] = Push(b, -fx, -fy)]
            ELSE ns

RECURSIVE RepulsionLoop(_, _, _)
RepulsionLoop(ns, i, j) ==
    IF i > Len(ns) THEN ns
    ELSE IF j > Len(ns) THEN RepulsionLoop(ns, i + 1, i + 2)
    ELSE RepulsionLoop(RepulsePair(ns, i, j), i, j + 1)

\* A spring step that takes a missing end of the link to stand at the origin
SpringLinkAnchored(ns, link) ==
    LET s == Find(ns, link.source)
        t == Find(ns, link.target)
        origin == [id |-> "root", type |-> "root", x |-> 0, y |-> 0, radius |-> 60]
        source == IF s = 0 THEN origin ELSE ns[s]
        target == IF t = 0 THEN origin ELSE ns[t]
        dx == target.x - source.x
        dy == target.y - source.y
        rt == Sqrt(dx * dx + dy * dy)
        dist == IF rt = 0 THEN Unit ELSE rt
        targetLen == IF target.type = "section" THEN 120 ELSE 250
        force == RDiv((dist - targetLen * Unit) * SPRING_STRENGTH, 100)
        fx == RDiv(dx * force, dist)
        fy == RDiv(dy * force, dist)
        moved == IF s = 0 THEN ns ELSE [ns EXCEPT ![s] = Push(source, fx, fy)]
    IN IF t = 0 THEN moved
       ELSE [moved EXCEPT ![t] = Push(moved[t], -fx, -fy)]

\* 2. Spring, the body of links.forEach for one link
SpringLink(ns, link) ==
    LET s == Find(ns, link.source)
        t == Find(ns, link.target)
        source == ns[s]
        target == ns[t]
        dx == target.x - source.x
        dy == target.y - source.y
        rt == Sqrt(dx * dx + dy * dy)
        dist == IF rt = 0 THEN Unit ELSE rt
        targetLen == IF target.type = "section" THEN 120 ELSE 250
        force == RDiv((dist - targetLen * Unit) * SPRING_STRENGTH, 100)
        fx == RDiv(dx * force, dist)
        fy == RDiv(dy * force, dist)
        moved == [ns EXCEPT ![s] = Push(source, fx, fy)]
    IN IF s = 0 \/ t = 0 THEN ns
       ELSE [moved EXCEPT ![t] = Push(moved[t], -fx, -fy)]

RECURSIVE SpringLoop(_, _, _)
SpringLoop(ns, links, l) ==
    IF l > Len(links) THEN ns
    ELSE SpringLoop(SpringLink(ns, links[l]), links, l + 1)

\* 3. Hard collision, the body of the inner loop for the pair (i, j)
CollidePair(ns, i, j) ==
    LET a == ns[i]
        b == ns[j]
        dx == a.x - b.x
        dy == a.y - b.y
        sq == dx * dx + dy * dy
        rt == Sqrt(sq)
        dist == IF rt = 0 THEN Unit ELSE rt
        minDist == (a.radius + b.radius + COLLISION_PADDING) * Unit
        overlap == minDist - dist
        \* (dx / dist) * overlap * 0.5
        fx == RDiv(dx * overlap, 2 * dist)
        fy == RDiv(dy * overlap, 2 * dist)
    \* dist < minDist, decided on the squares
    IN IF sq < minDist * minDist
       THEN [ns EXCEPT ![i] = Push(a, fx, fy), ![j] = Push(b, -fx, -fy)]
       ELSE ns

RECURSIVE CollisionLoop(_, _, _)
CollisionLoop(ns, i, j) ==
    IF i > Len(ns) THEN ns
    ELSE IF j > Len(ns) THEN CollisionLoop(ns, i + 1, i + 2)
    ELSE CollisionLoop(CollidePair(ns, i, j), i, j + 1)

\* One pass of the loop over k
Iteration(ns, links) ==
    CollisionLoop(SpringLoop(RepulsionLoop(ns, 1, 2), links, 1), 1, 2)

\* A relaxation that ignores its budget and stops only at rest (or after the
\* default budget of steps)
RECURSIVE SettleFrom(_, _, _)
SettleFrom(nodes, links, fuel) ==
    IF fuel <= 0 \/ Len(nodes) = 0 \/ Iteration(nodes, links) = nodes THEN nodes
    ELSE SettleFrom(Iteration(nodes, links), links, fuel - 1)

runSimulationToRest(nodes, links, iterations) == SettleFrom(nodes, links, 50)

RECURSIVE runSimulation(_, _, _)
runSimulation(nodes, links, iterations) ==
    IF iterations <= 0 \/ Len(nodes) = 0 THEN nodes
    ELSE runSimulation(Iteration(nodes, links), links, iterations - 1)

-----------------------------------------------------------------------------
(* History kept for the properties; no handler reads it *)

\* An expand-then-collapse of one document, followed from the expanding click:
\* the graph before it, and how far the round trip has come
NoTrip == [phase |-> "none", doc |-> Null, nodes |-> <<>>, links |-> <<>>]

\* Every step ends by recording the round trip
Observe ==
    trip' =
      IF expandedIds' # expandedIds
      THEN IF expandedIds \subseteq expandedIds'
           THEN [phase |-> "expanding", doc |-> clickPending,
                 nodes |-> graphNodes, links |-> graphLinks]
           ELSE IF trip.phase = "expanded" /\ trip.doc = clickPending
           THEN [trip EXCEPT !.phase = "collapsing"]
           ELSE NoTrip
      ELSE IF effectPending /\ ~effectPending'
      THEN IF trip.phase = "expanding" THEN [trip EXCEPT !.phase = "expanded"]
           ELSE IF trip.phase = "collapsing" THEN [trip EXCEPT !.phase = "done"]
           ELSE NoTrip
      ELSE IF graphNodes' # graphNodes \/ effectPending' # effectPending
      THEN NoTrip
      ELSE trip

-----------------------------------------------------------------------------
(* The topology update effect *)

\* doc.id || `doc-${i}`, i counted from 0
DocId(doc, i) == IF doc.id # "" THEN doc.id ELSE "doc-" \o ToString(i)

\* `sec-${docId}-${sec.id}`
SecId(docId, sec) == "sec-" \o docId \o "-" \o sec

\* A builder that puts the root back at the origin on every rebuild
RootNodeReset(prevNodes) ==
    [id |-> "root", type |-> "root", x |-> 0, y |-> 0, radius |-> 60]

RootNode(prevNodes) ==
    LET r == Find(prevNodes, "root")
    IN IF r # 0 THEN prevNodes[r]
       ELSE [id |-> "root", type |-> "root", x |-> 0, y |-> 0, radius |-> 60]

\* Math.cos(angle) * dist and Math.sin(angle) * dist with dist = 250
SlotX(i, n) == RDiv(Cos(i, n, 0) * 250 * Unit, 10000)
SlotY(i, n) == RDiv(Sin(i, n, 0) * 250 * Unit, 10000)

\* The document node pushed for documents[i] (i from 0)
DocNode(prevNodes, docs, i) ==
    LET docId == DocId(docs[i + 1], i)
        e == Find(prevNodes, docId)
    IN IF e # 0 THEN prevNodes[e]
       ELSE [id |-> docId, type |-> "doc", x |-> SlotX(i, Len(docs)),
             y |-> SlotY(i, Len(docs)), radius |-> 100]

\* The section node pushed for doc.sections[j] (i, j from 0)
SectionNode(prevNodes, docs, i, j) ==
    LET doc == docs[i + 1]
        docId == DocId(doc, i)
        secId == SecId(docId, doc.sections[j + 1])
        e == Find(prevNodes, docId)
        se == Find(prevNodes, secId)
        \* existing?.x || Math.cos(angle) * dist
        parentX == IF e # 0 /\ prevNodes[e].x # 0 THEN prevNodes[e].x
                   ELSE SlotX(i, Len(docs))
        parentY == IF e # 0 /\ prevNodes[e].y # 0 THEN prevNodes[e].y
                   ELSE SlotY(i, Len(docs))
        \* secAngle = angle + (j - len/2) * 0.5 = angle + (2j - len)/4
        h == 2 * j - Len(doc.sections)
    IN IF se # 0 THEN prevNodes[se]
       ELSE [id |-> secId, type |-> "section",
             x |-> parentX + RDiv(Cos(i, Len(docs), h) * 150 * Unit, 10000),
             y |-> parentY + RDiv(Sin(i, Len(docs), h) * 150 * Unit, 10000),
             radius |-> 60]

RECURSIVE SectionNodes(_, _, _, _)
SectionNodes(prevNodes, docs, i, j) ==
    IF j >= Len(docs[i + 1].sections) THEN <<>>
    ELSE <<SectionNode(prevNodes, docs, i, j)>>
         \o SectionNodes(prevNodes, docs, i, j + 1)

RECURSIVE SectionLinks(_, _, _)
SectionLinks(docs, i, j) ==
    IF j >= Len(docs[i + 1].sections) THEN <<>>
    ELSE <<[source |-> DocId(docs[i + 1], i),
            target |-> SecId(DocId(docs[i + 1], i), docs[i + 1].sections[j + 1]),
            type |-> "dashed"]>>
         \o SectionLinks(docs, i, j + 1)

\* newNodes after the documents.forEach, from document i on
RECURSIVE DocsNodes(_, _, _, _)
DocsNodes(prevNodes, docs, expanded, i) ==
    IF i >= Len(docs) THEN <<>>
    ELSE <<DocNode(prevNodes, docs, i)>>
         \o (IF DocId(docs[i + 1], i) \in expanded
             THEN SectionNodes(prevNodes, docs, i, 0) ELSE <<>>)
         \o DocsNodes(prevNodes, docs, expanded, i + 1)

RECURSIVE DocsLinks(_, _, _)
DocsLinks(docs, expanded, i) ==
    IF i >= Len(docs) THEN <<>>
    ELSE <<[source |-> "root", target |-> DocId(docs[i + 1], i), type |-> "solid"]>>
         \o (IF DocId(docs[i + 1], i) \in expanded
             THEN SectionLinks(docs, i, 0) ELSE <<>>)
         \o DocsLinks(docs, expanded, i + 1)

\* A builder that shows the sections of every document, expanded or not
NewNodesUnfolded(prevNodes, docs, expanded) ==
    <<RootNode(prevNodes)>>
    \o DocsNodes(prevNodes, docs,
                 { DocId(docs[k], k - 1) : k \in 1..Len(docs) }, 0)

\* A builder that shows an expanded document as its sections only
NewNodesFolding(prevNodes, docs, expanded) ==
    SelectSeq(<<RootNode(prevNodes)>> \o DocsNodes(prevNodes, docs, expanded, 0),
              LAMBDA n : ~(n.type = "doc" /\ n.id \in expanded))

\* A builder that keeps the previous nodes it did not rebuild
NewNodesKeepStale(prevNodes, docs, expanded) ==
    LET fresh == <<RootNode(prevNodes)>> \o DocsNodes(prevNodes, docs, expanded, 0)
    IN  fresh \o SelectSeq(prevNodes, LAMBDA n : Find(fresh, n.id) = 0)

\* newNodes, as pushed: the root, then each document followed by its sections
NewNodes(prevNodes, docs, expanded) ==
    <<RootNode(prevNodes)>> \o DocsNodes(prevNodes, docs, expanded, 0)

\* A builder whose links are all of the solid type
NewLinksAllSolid(docs, expanded) ==
    [k \in 1..Len(DocsLinks(docs, expanded, 0)) |->
        [DocsLinks(docs, expanded, 0)[k] EXCEPT !.type = "solid"]]

\* A builder that links the sections of every document, expanded or not
NewLinksEveryDoc(docs, expanded) ==
    DocsLinks(docs, { DocId(docs[k], k - 1) : k \in 1..Len(docs) }, 0)

\* newLinks, as pushed
NewLinks(docs, expanded) == DocsLinks(docs, expanded, 0)

\* The setGraphNodes updater: build, then runSimulation(newNodes, newLinks, 20)
Rebuild(prevNodes, docs, expanded) ==
    runSimulation(NewNodes(prevNodes, docs, expanded), NewLinks(docs, expanded), 20)

\* An effect that rebuilds in every view mode
TopologyEffectUngated ==
    /\ effectPending
    /\ effectPending' = FALSE
    /\ graphNodes' = Rebuild(graphNodes, documents, expandedIds)
    /\ graphLinks' = NewLinks(documents, expandedIds)
    /\ relaxIn' = NewNodes(graphNodes, documents, expandedIds)
    /\ relaxK' = 20
    /\ UNCHANGED <<viewMode, documents, expandedIds, zoom, pan, isDraggingCanvas,
                   lastPos, draggedNodeId, selectedSection, pressTarget,
                   clickPending, pressTravel, nEvents, nRenders>>
    /\ UNCHANGED hookVars
    /\ Observe

\* useEffect(..., [documents, expandedIds, runSimulation, viewMode])
TopologyEffect ==
    /\ effectPending
    /\ effectPending' = FALSE
    /\ IF viewMode # "mindmap"
       THEN UNCHANGED <<graphNodes, graphLinks, relaxIn, relaxK>>
       ELSE /\ graphNodes' = Rebuild(graphNodes, documents, expandedIds)
            /\ graphLinks' = NewLinks(documents, expandedIds)
            /\ relaxIn' = NewNodes(graphNodes, documents, expandedIds)
            /\ relaxK' = 20
    /\ UNCHANGED <<viewMode, documents, expandedIds, zoom, pan, isDraggingCanvas,
                   lastPos, draggedNodeId, selectedSection, pressTarget,
                   clickPending, pressTravel, nEvents, nRenders>>
    /\ UNCHANGED hookVars
    /\ Observe

-----------------------------------------------------------------------------
(* Inputs *)

\* Longest input sequence explored, and the most parent renders within it
MaxEvents == 4
MaxRenders == 1

\* The documents the project may hold
DocUniverse ==
    { [id |-> "d1", sections |-> <<"s1", "s2", "s3">>],
      [id |-> "d2", sections |-> <<"s1">>] }

\* clientX, clientY of the pointer events
ClientPoints == { [x |-> 0, y |-> 0], [x |-> 48, y |-> 36] }

\* deltaX, deltaY of the wheel events
WheelDeltas == { [x |-> 0, y |-> 1000], [x |-> 30, y |-> -3000] }

\* 'thematic' and 'timeline' take the same branches as 'relationships' here
ViewModes == {"mindmap", "relationships"}

Min(a, b) == IF a < b THEN a ELSE b
Max(a, b) == IF a > b THEN a ELSE b

NodeIds(ns) == { ns[k].id : k \in 1..Len(ns) }

\* An input event can be handled: the effect and a dispatched click run first
Idle == ~effectPending /\ clickPending = Null /\ nEvents < MaxEvents

-----------------------------------------------------------------------------
(* Interaction handlers *)

\* toggleNode(nodeId, 'doc'): the setExpandedIds updater
Toggle(prev, nodeId) ==
    IF nodeId \in prev THEN prev \ {nodeId} ELSE prev \cup {nodeId}

\* The node's onClick, dispatched after a mouseup on the element pressed
NodeClick ==
    /\ clickPending # Null
    /\ ~effectPending
    /\ LET k == Find(graphNodes, clickPending)
           node == graphNodes[k]
       IN /\ expandedIds' = IF k # 0 /\ node.type = "doc"
                            THEN Toggle(expandedIds, node.id) ELSE expandedIds
          /\ effectPending' = (k # 0 /\ node.type = "doc")
          /\ selectedSection' = IF k # 0 /\ node.type = "section"
                                THEN node.id ELSE selectedSection
    /\ clickPending' = Null
    /\ UNCHANGED <<viewMode, documents, graphNodes, graphLinks, zoom, pan,
                   isDraggingCanvas, lastPos, draggedNodeId, pressTarget,
                   pressTravel, relaxIn, relaxK, nEvents, nRenders>>
    /\ UNCHANGED hookVars
    /\ Observe

\* A zoom step without the clamp
WheelZoomFree(z, deltaY) == z - deltaY

\* Math.min(Math.max(0.1, z - e.deltaY * 0.001), 3)
WheelZoom(z, deltaY) == Min(Max(100, z - deltaY), 3000)

handleWheel(ctrlKey, d) ==
    /\ Idle
    /\ IF ctrlKey
       THEN zoom' = WheelZoom(zoom, d.y) /\ pan' = pan
       ELSE pan' = [x |-> pan.x - d.x, y |-> pan.y - d.y] /\ zoom' = zoom
    /\ nEvents' = nEvents + 1
    /\ nRenders' = nRenders
    /\ UNCHANGED <<viewMode, documents, graphNodes, graphLinks, expandedIds,
                   isDraggingCanvas, lastPos, draggedNodeId, selectedSection,
                   effectPending, pressTarget, clickPending, pressTravel,
                   relaxIn, relaxK>>
    /\ UNCHANGED hookVars
    /\ Observe

\* handleMouseDown(e, node.id) from a node, handleMouseDown(e) from the canvas
handleMouseDown(target, p) ==
    /\ Idle
    /\ \/ target = "canvas"
       \/ viewMode = "mindmap" /\ target \in NodeIds(graphNodes)
    /\ IF target # "canvas"
       THEN draggedNodeId' = target /\ isDraggingCanvas' = isDraggingCanvas
       ELSE isDraggingCanvas' = TRUE /\ draggedNodeId' = draggedNodeId
    /\ lastPos' = p
    /\ pressTarget' = target
    /\ pressTravel' = 0
    /\ nEvents' = nEvents + 1
    /\ nRenders' = nRenders
    /\ UNCHANGED <<viewMode, documents, graphNodes, graphLinks, expandedIds,
                   zoom, pan, selectedSection, effectPending, clickPending,
                   relaxIn, relaxK>>
    /\ UNCHANGED hookVars
    /\ Observe

\* prev.map(n => n.id === draggedNodeId ? {...n, x: n.x + dx, y: n.y + dy} : n)
DragNodes(prev, id, dx, dy) ==
    [k \in 1..Len(prev) |->
        IF prev[k].id = id
        THEN [prev[k] EXCEPT !.x = @ + dx, !.y = @ + dy] ELSE prev[k]]

\* (e.clientX - lastPos.x) / zoom, in coordinate steps
NodeDelta(d, z) == RDiv(d * Unit * 1000, z)

\* A pan step that scales the pointer delta by the inverse of the zoom
PanByZoomed(pn, dx, dy) ==
    [x |-> pn.x + RDiv(dx * 1000, zoom), y |-> pn.y + RDiv(dy * 1000, zoom)]

\* setPan(p => ({ x: p.x + dx, y: p.y + dy }))
PanBy(pn, dx, dy) == [x |-> pn.x + dx, y |-> pn.y + dy]

handleMouseMove(p) ==
    /\ Idle
    /\ LET dx == p.x - lastPos.x
           dy == p.y - lastPos.y
       IN IF isDraggingCanvas
          THEN /\ pan' = PanBy(pan, dx, dy)
               /\ lastPos' = p
               /\ pressTravel' = pressTravel + Sqrt(dx * dx + dy * dy)
               /\ graphNodes' = graphNodes
          ELSE IF draggedNodeId # Null
          THEN /\ graphNodes' = DragNodes(graphNodes, draggedNodeId,
                                          NodeDelta(dx, zoom), NodeDelta(dy, zoom))
               /\ lastPos' = p
               /\ pressTravel' = pressTravel + Sqrt(dx * dx + dy * dy)
               /\ pan' = pan
          ELSE UNCHANGED <<pan, lastPos, pressTravel, graphNodes>>
    /\ nEvents' = nEvents + 1
    /\ nRenders' = nRenders
    /\ UNCHANGED <<viewMode, documents, graphLinks, expandedIds, zoom,
                   isDraggingCanvas, draggedNodeId, selectedSection,
                   effectPending, pressTarget, clickPending, relaxIn, relaxK>>
    /\ UNCHANGED hookVars
    /\ Observe

\* A release that ends the node drag only
handleMouseUpNodeOnly(target) ==
    /\ Idle
    /\ \/ target = "canvas"
       \/ viewMode = "mindmap" /\ target \in NodeIds(graphNodes)
    /\ isDraggingCanvas' = isDraggingCanvas
    /\ draggedNodeId' = Null
    /\ clickPending' = IF target # "canvas" /\ target = pressTarget
                       THEN target ELSE Null
    /\ pressTarget' = Null
    /\ nEvents' = nEvents + 1
    /\ nRenders' = nRenders
    /\ UNCHANGED <<viewMode, documents, graphNodes, graphLinks, expandedIds,
                   zoom, pan, lastPos, selectedSection, effectPending,
                   pressTravel, relaxIn, relaxK>>
    /\ UNCHANGED hookVars
    /\ Observe

\* onMouseUp={handleMouseUp}; the browser then dispatches click to a node that
\* was both pressed and released on
handleMouseUp(target) ==
    /\ Idle
    /\ \/ target = "canvas"
       \/ viewMode = "mindmap" /\ target \in NodeIds(graphNodes)
    /\ isDraggingCanvas' = FALSE
    /\ draggedNodeId' = Null
    /\ clickPending' = IF target # "canvas" /\ target = pressTarget
                       THEN target ELSE Null
    /\ pressTarget' = Null
    /\ nEvents' = nEvents + 1
    /\ nRenders' = nRenders
    /\ UNCHANGED <<viewMode, documents, graphNodes, graphLinks, expandedIds,
                   zoom, pan, lastPos, selectedSection, effectPending,
                   pressTravel, relaxIn, relaxK>>
    /\ UNCHANGED hookVars
    /\ Observe

\* onMouseLeave={handleMouseUp}
handleMouseLeave ==
    /\ Idle
    /\ isDraggingCanvas' = FALSE
    /\ draggedNodeId' = Null
    /\ nEvents' = nEvents + 1
    /\ nRenders' = nRenders
    /\ UNCHANGED <<viewMode, documents, graphNodes, graphLinks, expandedIds,
                   zoom, pan, lastPos, selectedSection, effectPending,
                   pressTarget, clickPending, pressTravel, relaxIn, relaxK>>
    /\ UNCHANGED hookVars
    /\ Observe

\* The overlay buttons
ZoomInClick ==
    /\ Idle
    /\ zoom' = zoom + 100
    /\ nEvents' = nEvents + 1
    /\ nRenders' = nRenders
    /\ UNCHANGED <<viewMode, documents, graphNodes, graphLinks, expandedIds,
                   pan, isDraggingCanvas, lastPos, draggedNodeId,
                   selectedSection, effectPending, pressTarget, clickPending,
                   pressTravel, relaxIn, relaxK>>
    /\ UNCHANGED hookVars
    /\ Observe

ZoomOutClick ==
    /\ Idle
    /\ zoom' = Max(100, zoom - 100)
    /\ nEvents' = nEvents + 1
    /\ nRenders' = nRenders
    /\ UNCHANGED <<viewMode, documents, graphNodes, graphLinks, expandedIds,
                   pan, isDraggingCanvas, lastPos, draggedNodeId,
                   selectedSection, effectPending, pressTarget, clickPending,
                   pressTravel, relaxIn, relaxK>>
    /\ UNCHANGED hookVars
    /\ Observe

ResetViewClick ==
    /\ Idle
    /\ pan' = [x |-> 0, y |-> 0]
    /\ zoom' = 800
    /\ nEvents' = nEvents + 1
    /\ nRenders' = nRenders
    /\ UNCHANGED <<viewMode, documents, graphNodes, graphLinks, expandedIds,
                   isDraggingCanvas, lastPos, draggedNodeId, selectedSection,
                   effectPending, pressTarget, clickPending, pressTravel,
                   relaxIn, relaxK>>
    /\ UNCHANGED hookVars
    /\ Observe

\* The header buttons: setViewMode(m)
SetViewMode(m) ==
    /\ Idle
    /\ m # viewMode
    /\ viewMode' = m
    /\ effectPending' = TRUE
    /\ nEvents' = nEvents + 1
    /\ nRenders' = nRenders
    /\ UNCHANGED <<documents, graphNodes, graphLinks, expandedIds, zoom, pan,
                   isDraggingCanvas, lastPos, draggedNodeId, selectedSection,
                   pressTarget, clickPending, pressTravel, relaxIn, relaxK>>
    /\ UNCHANGED hookVars
    /\ Observe

-----------------------------------------------------------------------------
(* The `nodes` prop: the parent renders with a new document list *)

\* nodes.filter(...).map(n => n.data) yields a new array on every parent render
SetDocuments(docs) ==
    /\ Idle
    /\ nRenders < MaxRenders
    /\ documents' = docs
    /\ effectPending' = TRUE
    /\ nEvents' = nEvents + 1
    /\ nRenders' = nRenders + 1
    /\ UNCHANGED <<viewMode, graphNodes, graphLinks, expandedIds, zoom, pan,
                   isDraggingCanvas, lastPos, draggedNodeId, selectedSection,
                   pressTarget, clickPending, pressTravel, relaxIn, relaxK>>
    /\ UNCHANGED hookVars
    /\ Observe

\* The parent rendered again with the same documents
Rerender == SetDocuments(documents)

\* A document was added to the project (appended to the list)
AddDocument(d) ==
    /\ \A k \in 1..Len(documents) : documents[k].id # d.id
    /\ SetDocuments(Append(documents, d))

\* The document added last was deleted from the project.  (Deleting an earlier
\* one lets the next append land on the slot of a document still shown; two
\* nodes on one point are explored by SimSpec.)
RemoveDocument ==
    /\ Len(documents) > 0
    /\ SetDocuments(SubSeq(documents, 1, Len(documents) - 1))

-----------------------------------------------------------------------------
(* The project hook in guest mode: the file tree *)

\* Most ids uuidv4() hands out in one behaviour
MaxUuids == 3

\* const newId = uuidv4(): an id never returned before
uuidv4 == "id-" \o ToString(uuids + 1)

\* The names and types a folder is created with, and the name of an upload
FolderNames == {"Notes"}
FolderTypes == {"section"}
DocName == "Report"

\* handleGuestLogin: the tree holds the guest root alone, and it is current
handleGuestLogin ==
    /\ fileSystem = [n \in {"guest-root"} |->
                        [id |-> "guest-root", parentId |-> Null,
                         name |-> "My Local Projects", type |-> "project",
                         children |-> <<>>]]
    /\ currentPath = <<"guest-root">>
    /\ uuids = 0

\* prev[id], present
Has(prev, id) == id \in DOMAIN prev

\* { ...prev, [id]: node }
Put(prev, id, node) == [n \in DOMAIN prev \cup {id} |-> IF n = id THEN node ELSE prev[n]]

\* currentPath[currentPath.length - 1]
CurrentFolder == IF Len(currentPath) = 0 THEN Null ELSE currentPath[Len(currentPath)]

\* currentPath.indexOf(nodeId), from 1; 0 if absent
IndexOf(path, nodeId) ==
    IF \E k \in 1..Len(path) : path[k] = nodeId
    THEN CHOOSE k \in 1..Len(path) :
            path[k] = nodeId /\ \A m \in 1..(k - 1) : path[m] # nodeId
    ELSE 0

\* navigate(nodeId) on a node of the tree
navigate(nodeId) ==
    /\ Has(fileSystem, nodeId)
    /\ currentPath' = IF IndexOf(currentPath, nodeId) # 0
                      THEN SubSeq(currentPath, 1, IndexOf(currentPath, nodeId))
                      ELSE Append(currentPath, nodeId)
    /\ currentPath' # currentPath
    /\ UNCHANGED <<fileSystem, uuids>>
    /\ UNCHANGED modalVars

\* createFolder(name, type), guest branch (with the current folder gone from
\* the tree the updater throws on parent.children and the state stays)
createFolder(name, type) ==
    /\ CurrentFolder # Null
    /\ Has(fileSystem, CurrentFolder)
    /\ uuids < MaxUuids
    /\ LET parentId == CurrentFolder
           newId == uuidv4
           newNode == [id |-> newId, parentId |-> parentId, name |-> name,
                       type |-> type, children |-> <<>>]
           parent == fileSystem[parentId]
       IN fileSystem' =
             Put(Put(fileSystem, parentId,
                     [parent EXCEPT !.children = Append(@, newId)]),
                 newId, newNode)
    /\ uuids' = uuids + 1
    /\ UNCHANGED currentPath
    /\ UNCHANGED modalVars

\* The updater of moveNode, guest branch
MoveIn(prev, nodeId, newParentId) ==
    LET node == prev[nodeId]
        oldId == node.parentId
        newParent == prev[newParentId]
        dropped == IF oldId # Null /\ Has(prev, oldId)
                   THEN Put(prev, oldId,
                            [prev[oldId] EXCEPT !.children =
                                SelectSeq(@, LAMBDA c : c # nodeId)])
                   ELSE prev
        added == Put(dropped, newParentId,
                     [newParent EXCEPT !.children = Append(@, nodeId)])
    IN IF ~Has(prev, newParentId) THEN prev
       ELSE IF node.parentId = newParentId THEN prev
       ELSE Put(added, nodeId, [node EXCEPT !.parentId = newParentId])

\* moveNode(nodeId, newParentId): a node dropped on another node
moveNode(nodeId, newParentId) ==
    /\ Has(fileSystem, nodeId)
    /\ nodeId # newParentId
    /\ fileSystem' = MoveIn(fileSystem, nodeId, newParentId)
    /\ fileSystem' # fileSystem
    /\ UNCHANGED <<currentPath, uuids>>
    /\ UNCHANGED modalVars

\* The updater of deleteNode, guest branch
DeleteIn(prev, id) ==
    LET node == prev[id]
        unlisted == IF node.parentId # Null /\ Has(prev, node.parentId)
                    THEN Put(prev, node.parentId,
                             [prev[node.parentId] EXCEPT !.children =
                                 SelectSeq(@, LAMBDA c : c # id)])
                    ELSE prev
    IN IF ~Has(prev, id) THEN prev
       ELSE [n \in DOMAIN unlisted \ {id} |-> unlisted[n]]

\* deleteNode(id)
deleteNode(id) ==
    /\ Has(fileSystem, id)
    /\ fileSystem' = DeleteIn(fileSystem, id)
    /\ UNCHANGED <<currentPath, uuids>>
    /\ UNCHANGED modalVars

\* duplicateNode(nodeId), guest branch
duplicateNode(nodeId) ==
    /\ Has(fileSystem, nodeId)
    /\ uuids < MaxUuids
    /\ LET node == fileSystem[nodeId]
           newId == uuidv4
           newName == node.name \o " (Copy)"
           newNode == [node EXCEPT !.id = newId, !.name = newName,
                                   !.children = <<>>]
           next == Put(fileSystem, newId, newNode)
       IN fileSystem' =
             IF node.parentId # Null /\ Has(fileSystem, node.parentId)
             THEN Put(next, node.parentId,
                      [fileSystem[node.parentId] EXCEPT
                          !.children = Append(@, newId)])
             ELSE next
    /\ uuids' = uuids + 1
    /\ UNCHANGED currentPath
    /\ UNCHANGED modalVars

\* The updater of addDocument(nodeId, node, parentId)
addDocument(prev, nodeId, node, parentId) ==
    LET next == Put(prev, nodeId, node)
    IN IF parentId # Null /\ Has(next, parentId)
       THEN Put(next, parentId,
                [next[parentId] EXCEPT !.children = Append(@, nodeId)])
       ELSE next

\* A file uploaded into the current folder, guest branch: the analysed
\* document becomes a document_folder node
handleFileUpload ==
    /\ CurrentFolder # Null
    /\ uuids < MaxUuids
    /\ LET parentId == CurrentFolder
           folderId == uuidv4
           folderNode == [id |-> folderId, parentId |-> parentId,
                          name |-> DocName, type |-> "document_folder",
                          children |-> <<>>]
       IN fileSystem' = addDocument(fileSystem, folderId, folderNode, parentId)
    /\ uuids' = uuids + 1
    /\ UNCHANGED currentPath
    /\ UNCHANGED modalVars

-----------------------------------------------------------------------------
(* The component *)

\* The document lists the component may be mounted with
DocLists ==
    { <<>> } \cup { <<d>> : d \in DocUniverse }
    \cup { <<q[1], q[2]>> : q \in { r \in DocUniverse \X DocUniverse : r[1] # r[2] } }

Init ==
    /\ viewMode = "mindmap"
    /\ documents \in DocLists
    /\ graphNodes = <<>>
    /\ graphLinks = <<>>
    /\ expandedIds = {}
    /\ zoom = 800
    /\ pan = [x |-> 0, y |-> 0]
    /\ isDraggingCanvas = FALSE
    /\ lastPos = [x |-> 0, y |-> 0]
    /\ draggedNodeId = Null
    /\ selectedSection = Null
    /\ effectPending = TRUE
    /\ pressTarget = Null
    /\ clickPending = Null
    /\ pressTravel = 0
    /\ relaxIn = <<>>
    /\ relaxK = -1
    /\ nEvents = 0
    /\ nRenders = 0
    /\ trip = NoTrip
    /\ handleGuestLogin

Next ==
    \/ TopologyEffect
    \/ NodeClick
    \/ \E c \in BOOLEAN, d \in WheelDeltas : handleWheel(c, d)
    \/ \E t \in {"canvas"} \cup NodeIds(graphNodes), p \in ClientPoints :
          handleMouseDown(t, p)
    \/ \E p \in ClientPoints : handleMouseMove(p)
    \/ \E t \in {"canvas"} \cup NodeIds(graphNodes) : handleMouseUp(t)
    \/ handleMouseLeave
    \/ ZoomInClick
    \/ ZoomOutClick
    \/ ResetViewClick
    \/ \E m \in ViewModes : SetViewMode(m)
    \/ Rerender
    \/ \E d \in DocUniverse : AddDocument(d)
    \/ RemoveDocument

Spec == Init /\ [][Next]_vars

-----------------------------------------------------------------------------
(* runSimulation on its own: any node list, link list and iteration count *)

\* Largest iteration count tried besides the effect's 20
MaxIter == 3

\* Starting points, in pixels
SimPoints == { <<0, 0>>, <<120, 0>>, <<300, 200>>, <<-500, 300>> }

SimRadius(type) == IF type = "doc" THEN 100 ELSE 60

SimNode(id, type, pt) ==
    [id |-> id, type |-> type, x |-> pt[1] * Unit, y |-> pt[2] * Unit,
     radius |-> SimRadius(type)]

\* Node lists by id and type, the root first, last or absent
SimShapes ==
    { << <<"root", "root">>, <<"d1", "doc">> >>,
      << <<"d1", "doc">>, <<"root", "root">> >>,
      << <<"d1", "doc">>, <<"d2", "doc">> >>,
      << <<"sec-d1-s1", "section">>, <<"sec-d1-s2", "section">> >>,
      << <<"root", "root">>, <<"d1", "doc">>, <<"sec-d1-s1", "section">> >>,
      << <<"d1", "doc">>, <<"d2", "doc">>, <<"root", "root">> >> }

\* Two nodes may start on one point.  (With a third node present the pair
\* drifts a fraction of a pixel apart and the 1 / distSq repulsion then throws
\* it millions of pixels, past the integers of the checker.)
SimPlacements(sh) ==
    { pts \in [1..Len(sh) -> SimPoints] :
        Len(sh) = 2 \/ \A k, m \in 1..Len(sh) : k # m => pts[k] # pts[m] }

SimNodeLists ==
    UNION { { [k \in 1..Len(sh) |-> SimNode(sh[k][1], sh[k][2], pts[k])] :
              pts \in SimPlacements(sh) } : sh \in SimShapes }

\* The links of the full tree; those whose target is in the list may still
\* name a source that is not (a list caught between two topologies)
TreeLinks ==
    << [source |-> "root", target |-> "d1", type |-> "solid"],
       [source |-> "root", target |-> "d2", type |-> "solid"],
       [source |-> "d1", target |-> "sec-d1-s1", type |-> "dashed"],
       [source |-> "d1", target |-> "sec-d1-s2", type |-> "dashed"] >>

LinksInto(ns) ==
    LET Into(l) == l.target \in NodeIds(ns) IN SelectSeq(TreeLinks, Into)

SimInit ==
    /\ graphNodes \in SimNodeLists
    /\ graphLinks \in { <<>>, LinksInto(graphNodes) }
    /\ relaxIn = graphNodes
    /\ relaxK = -1
    /\ viewMode = "mindmap"
    /\ documents = <<>>
    /\ expandedIds = {}
    /\ zoom = 800
    /\ pan = [x |-> 0, y |-> 0]
    /\ isDraggingCanvas = FALSE
    /\ lastPos = [x |-> 0, y |-> 0]
    /\ draggedNodeId = Null
    /\ selectedSection = Null
    /\ effectPending = FALSE
    /\ pressTarget = Null
    /\ clickPending = Null
    /\ pressTravel = 0
    /\ nEvents = 0
    /\ nRenders = 0
    /\ trip = NoTrip
    /\ handleGuestLogin

\* One call runSimulation(nodes, links, iterations)
Relax(iterations) ==
    /\ relaxK = -1
    /\ graphNodes' = runSimulation(graphNodes, graphLinks, iterations)
    /\ relaxK' = iterations
    /\ UNCHANGED <<viewMode, documents, graphLinks, expandedIds, zoom, pan,
                   isDraggingCanvas, lastPos, draggedNodeId, selectedSection,
                   effectPending, pressTarget, clickPending, pressTravel,
                   relaxIn, nEvents, nRenders, trip>>
    /\ UNCHANGED hookVars

SimNext == \E k \in (0..MaxIter) \cup {20} : Relax(k)

SimSpec == SimInit /\ [][SimNext]_vars

-----------------------------------------------------------------------------
(* The file tree of a guest session, the graph modal closed *)

FsInit ==
    /\ handleGuestLogin
    /\ viewMode = "mindmap"
    /\ documents = <<>>
    /\ graphNodes = <<>>
    /\ graphLinks = <<>>
    /\ expandedIds = {}
    /\ zoom = 800
    /\ pan = [x |-> 0, y |-> 0]
    /\ isDraggingCanvas = FALSE
    /\ lastPos = [x |-> 0, y |-> 0]
    /\ draggedNodeId = Null
    /\ selectedSection = Null
    /\ effectPending = FALSE
    /\ pressTarget = Null
    /\ clickPending = Null
    /\ pressTravel = 0
    /\ relaxIn = <<>>
    /\ relaxK = -1
    /\ nEvents = 0
    /\ nRenders = 0
    /\ trip = NoTrip

\* The explorer lists the children of the current folder that exist; each has
\* a delete and a duplicate button and can be dragged
Listed ==
    IF CurrentFolder # Null /\ Has(fileSystem, CurrentFolder)
    THEN { fileSystem[CurrentFolder].children[k] :
             k \in 1..Len(fileSystem[CurrentFolder].children) } \cap DOMAIN fileSystem
    ELSE {}

\* The folders of the tree: navigation goes to them and nodes are dropped on them
Folders == { n \in DOMAIN fileSystem : fileSystem[n].type # "document_folder" }

FsNext ==
    \/ \E nodeId \in Folders : navigate(nodeId)
    \/ \E name \in FolderNames, type \in FolderTypes : createFolder(name, type)
    \/ handleFileUpload
    \/ \E nodeId \in Listed, newParentId \in Folders : moveNode(nodeId, newParentId)
    \/ \E id \in Listed : deleteNode(id)
    \/ \E nodeId \in Listed : duplicateNode(nodeId)

FsSpec == FsInit /\ [][FsNext]_vars

-----------------------------------------------------------------------------
(* The rebuild after an expanding click, from any position of the document *)

\* Where a drag may have left the document node, in pixels: on an axis or off
SeedPoints ==
    { pt \in {-300, 0, 100, 240} \X {-120, 0, 200} : pt # <<0, 0>> }

\* The graph of the collapsed documents, document number `moved` dragged to pt
SeedGraph(docs, moved, pt) ==
    <<RootNode(<<>>)>>
    \o [k \in 1..Len(docs) |->
          IF k = moved
          THEN [DocNode(<<>>, docs, k - 1) EXCEPT
                  !.x = pt[1] * Unit, !.y = pt[2] * Unit]
          ELSE DocNode(<<>>, docs, k - 1)]

\* The state after the click on that document: its id is in the expansion
\* set and the effect is due
SeedInit ==
    /\ documents \in DocLists \ {<<>>}
    /\ \E moved \in 1..Len(documents), pt \in SeedPoints :
          /\ graphNodes = SeedGraph(documents, moved, pt)
          /\ expandedIds = {DocId(documents[moved], moved - 1)}
    /\ graphLinks = NewLinks(documents, {})
    /\ relaxIn = <<>>
    /\ relaxK = -1
    /\ viewMode = "mindmap"
    /\ zoom = 800
    /\ pan = [x |-> 0, y |-> 0]
    /\ isDraggingCanvas = FALSE
    /\ lastPos = [x |-> 0, y |-> 0]
    /\ draggedNodeId = Null
    /\ selectedSection = Null
    /\ effectPending = TRUE
    /\ pressTarget = Null
    /\ clickPending = Null
    /\ pressTravel = 0
    /\ nEvents = 0
    /\ nRenders = 0
    /\ trip = NoTrip
    /\ handleGuestLogin

SeedNext == TopologyEffect

SeedSpec == SeedInit /\ [][SeedNext]_vars

-----------------------------------------------------------------------------
(* Properties *)

SamePlace(a, b) == a.x = b.x /\ a.y = b.y

\* C1 (SimSpec): whatever the nodes, the links and the iteration count (0
\* included), runSimulation returns the root where it was given.
RootImmobile ==
    relaxK >= 0 =>
        \A k \in 1..Len(graphNodes) :
            graphNodes[k].id = "root" => SamePlace(graphNodes[k], relaxIn[k])

\* Centre distance of a and b at least the sum of their radii less tol pixels
Apart(a, b, tol) ==
    (a.x - b.x) * (a.x - b.x) + (a.y - b.y) * (a.y - b.y)
        >= ((a.radius + b.radius - tol) * Unit) * ((a.radius + b.radius - tol) * Unit)

\* A call of 20 iterations on a list whose last node is the root, overlapped
\* by the second node: that node was moved, the root was not.
RootImmobileWitness ==
    /\ relaxK = 20
    /\ Len(graphNodes) = 3
    /\ graphNodes[3].id = "root"
    /\ ~Apart(relaxIn[2], relaxIn[3], 0)
    /\ ~SamePlace(graphNodes[2], relaxIn[2])
    /\ SamePlace(graphNodes[3], relaxIn[3])

\* C2 (SimSpec), as claimed: two nodes (neither the root) given on one point
\* are on two different points after one iteration.
ZeroDistanceSeparated ==
    (/\ relaxK = 1
     /\ Len(relaxIn) = 2
     /\ relaxIn[1].id # "root" /\ relaxIn[2].id # "root"
     /\ SamePlace(relaxIn[1], relaxIn[2]))
        => ~SamePlace(graphNodes[1], graphNodes[2])

\* C3 (SimSpec), as claimed: after the 20 iterations of a rebuild no two nodes
\* overlap (to within a pixel), wherever they started.
NoOverlapAtRest ==
    relaxK = 20 =>
        \A k, m \in 1..Len(graphNodes) :
            k < m => Apart(graphNodes[k], graphNodes[m], 1)

\* The ids of the section nodes of document docId, and its dashed links
SectionIdsOf(docId) ==
    UNION { { SecId(docId, documents[k].sections[j]) :
                j \in 1..Len(documents[k].sections) } :
            k \in { m \in 1..Len(documents) : DocId(documents[m], m - 1) = docId } }

Range(seq) == { seq[k] : k \in 1..Len(seq) }

\* C4 (Spec): a click that expands a collapsed document adds exactly that
\* document's section nodes and their dashed links; the click that collapses it
\* again leaves exactly the node ids and the links there were before.
RoundTripStructure ==
    /\ trip.phase = "expanded" =>
          /\ NodeIds(graphNodes) = NodeIds(trip.nodes) \cup SectionIdsOf(trip.doc)
          /\ Len(graphNodes) = Len(trip.nodes) + Cardinality(SectionIdsOf(trip.doc))
          /\ Range(graphLinks) =
                Range(trip.links) \cup
                { [source |-> trip.doc, target |-> sid, type |-> "dashed"] :
                    sid \in SectionIdsOf(trip.doc) }
    /\ trip.phase = "done" =>
          /\ NodeIds(graphNodes) = NodeIds(trip.nodes)
          /\ Len(graphNodes) = Len(trip.nodes)
          /\ graphLinks = trip.links

\* Document d1 (three sections) was expanded and collapsed again.
RoundTripWitness ==
    /\ trip.phase = "done"
    /\ trip.doc = "d1"
    /\ Len(graphNodes) >= 2

\* C5 (Spec), as claimed: after the expand and the collapse the root and every
\* document node are where they were before the expanding click.
RoundTripPositions ==
    trip.phase = "done" =>
        \A k \in 1..Len(trip.nodes) :
            trip.nodes[k].type \in {"root", "doc"} =>
                /\ Find(graphNodes, trip.nodes[k].id) # 0
                /\ SamePlace(graphNodes[Find(graphNodes, trip.nodes[k].id)],
                             trip.nodes[k])

\* C6 (Spec), as claimed: a rebuild for the same documents (the one an expand
\* or collapse click causes) returns every node it keeps at the position the
\* node had.
RebuildKeepsPlaces ==
    [][(TopologyEffect /\ viewMode = "mindmap"
            /\ trip.phase \in {"expanding", "collapsing"}) =>
          \A k \in 1..Len(graphNodes) :
            Find(graphNodes', graphNodes[k].id) # 0 =>
                SamePlace(graphNodes'[Find(graphNodes', graphNodes[k].id)],
                          graphNodes[k])]_vars

\* C7 (Spec), as claimed: while a node is being dragged, a pointer move by
\* (dx, dy) moves the dragged node by (dx, dy) / zoom and changes no other
\* node, nor pan, zoom, links or expansion set.
NodeDragFrame ==
    [][\A p \in ClientPoints :
          (handleMouseMove(p) /\ draggedNodeId # Null
                /\ Find(graphNodes, draggedNodeId) # 0) =>
             /\ Len(graphNodes') = Len(graphNodes)
             /\ \A k \in 1..Len(graphNodes) :
                   graphNodes'[k] =
                     IF graphNodes[k].id = draggedNodeId
                     THEN [graphNodes[k] EXCEPT
                             !.x = @ + RDiv((p.x - lastPos.x) * Unit * 1000, zoom),
                             !.y = @ + RDiv((p.y - lastPos.y) * Unit * 1000, zoom)]
                     ELSE graphNodes[k]
             /\ pan' = pan
             /\ zoom' = zoom
             /\ graphLinks' = graphLinks
             /\ expandedIds' = expandedIds]_vars

\* C8 (Spec), as claimed: a rebuild that runs while a node is being dragged
\* leaves that node at its dragged position.
DraggedNodeNotRelaxed ==
    [][(TopologyEffect /\ viewMode = "mindmap" /\ draggedNodeId # Null
            /\ ~isDraggingCanvas
            /\ Find(graphNodes, draggedNodeId) # 0
            /\ Find(graphNodes', draggedNodeId) # 0) =>
          SamePlace(graphNodes'[Find(graphNodes', draggedNodeId)],
                    graphNodes[Find(graphNodes, draggedNodeId)])]_vars

\* The scenario of C9: the only document is d1, with its three sections, and it
\* is expanded and shown
OneDocExpanded ==
    /\ viewMode = "mindmap"
    /\ ~effectPending
    /\ Len(documents) = 1
    /\ documents[1].id = "d1"
    /\ Len(documents[1].sections) = 3
    /\ expandedIds = {"d1"}

LinksOfType(t) == { k \in 1..Len(graphLinks) : graphLinks[k].type = t }

\* C9 (Spec), as claimed: the expanded one-document graph has 6 nodes.
ScenarioSixNodes ==
    OneDocExpanded =>
        /\ Len(graphNodes) = 6
        /\ Cardinality(LinksOfType("solid")) = 1
        /\ Cardinality(LinksOfType("dashed")) = 3

\* C9 (Spec), amended: it has 5 nodes (the root, the document, three
\* sections), 1 solid link and 3 dashed links.
ScenarioFiveNodes ==
    OneDocExpanded =>
        /\ Len(graphNodes) = 5
        /\ Cardinality(LinksOfType("solid")) = 1
        /\ Cardinality(LinksOfType("dashed")) = 3

ScenarioWitness == OneDocExpanded /\ Len(graphNodes) = 5 /\ Len(graphLinks) = 4

\* Pointer travel, in pixels, from which a press and release is a drag
MinDrag == 5

\* C10 (Spec), as claimed: the click the browser dispatches after a press, a
\* drag of more than MinDrag pixels and a release on the same node neither
\* toggles a document nor selects a section.
DragIsNoClick ==
    [][(NodeClick /\ pressTravel > MinDrag) =>
          (expandedIds' = expandedIds /\ selectedSection' = selectedSection)]_vars

\* C11 (Spec), as claimed: in no reachable state is the canvas drag active
\* while a node is in the dragging state.
DragsExclusive == ~(isDraggingCanvas /\ draggedNodeId # Null)

\* C12 (Spec): a step that ends a node drag (mouseup or mouseleave) also ends
\* the canvas drag and changes no node; and a rebuild hands each node it keeps
\* to runSimulation at the position the node has, the last dragged one included.
DragRelease ==
    [][/\ (draggedNodeId # Null /\ draggedNodeId' = Null) =>
            (isDraggingCanvas' = FALSE /\ graphNodes' = graphNodes)
       /\ (effectPending /\ ~effectPending' /\ viewMode = "mindmap") =>
            \A k \in 1..Len(graphNodes) :
               Find(relaxIn', graphNodes[k].id) # 0 =>
                  SamePlace(relaxIn'[Find(relaxIn', graphNodes[k].id)],
                            graphNodes[k])]_vars

\* The only document was dragged off its slot, released and clicked, and the
\* rebuild that followed started from the dragged position.
DragReleaseWitness ==
    /\ trip.phase = "expanded"
    /\ Len(documents) = 1
    /\ draggedNodeId = Null
    /\ pressTravel > 0
    /\ Len(trip.nodes) = 2
    /\ ~(trip.nodes[2].x = SlotX(0, 1) /\ trip.nodes[2].y = SlotY(0, 1))
    /\ SamePlace(relaxIn[2], trip.nodes[2])

\* C13 (Spec): a wheel event with ctrl or meta held leaves the zoom factor in
\* [0.1, 3.0] (in thousandths: 100..3000), whatever it was before, and does
\* not change the pan offset.
ScrollZoomClamped ==
    [][\A d \in WheelDeltas :
          handleWheel(TRUE, d) => (zoom' \in 100..3000 /\ pan' = pan)]_vars

\* The first event was a modified scroll that the lower clamp cut off.
ScrollZoomWitness ==
    /\ nEvents = 1
    /\ zoom = 100
    /\ pan = [x |-> 0, y |-> 0]

\* C14 (Spec): a pointer move during a canvas drag adds the pointer delta,
\* unscaled, to the pan offset, and a wheel event without ctrl or meta
\* subtracts its deltas from the pan offset; both leave every node, the zoom
\* factor, the links and the expansion set as they are.
PanFrame ==
    [][/\ \A p \in ClientPoints :
            (handleMouseMove(p) /\ isDraggingCanvas) =>
               /\ pan'.x = pan.x + (p.x - lastPos.x)
               /\ pan'.y = pan.y + (p.y - lastPos.y)
               /\ graphNodes' = graphNodes /\ zoom' = zoom
               /\ graphLinks' = graphLinks /\ expandedIds' = expandedIds
       /\ \A d \in WheelDeltas :
            handleWheel(FALSE, d) =>
               /\ pan'.x = pan.x - d.x
               /\ pan'.y = pan.y - d.y
               /\ graphNodes' = graphNodes /\ zoom' = zoom
               /\ graphLinks' = graphLinks /\ expandedIds' = expandedIds]_vars

\* The zoom was changed, then the canvas was dragged by (48, 36).
PanFrameWitness ==
    /\ isDraggingCanvas
    /\ zoom # 800
    /\ pan = [x |-> 48, y |-> 36]
    /\ lastPos = [x |-> 48, y |-> 36]

\* The links that enter the node with this id
LinksTo(id) == { k \in 1..Len(graphLinks) : graphLinks[k].target = id }

\* C15 (Spec): in every reachable state each link joins two nodes of the node
\* list, each document node is entered by exactly one link, from the root, each
\* section node by exactly one link, from a document node, and the root by none.
TreeInvariant ==
    /\ \A k \in 1..Len(graphLinks) :
          /\ Find(graphNodes, graphLinks[k].source) # 0
          /\ Find(graphNodes, graphLinks[k].target) # 0
    /\ \A k \in 1..Len(graphNodes) :
          IF graphNodes[k].id = "root"
          THEN LinksTo("root") = {}
          ELSE /\ Cardinality(LinksTo(graphNodes[k].id)) = 1
               /\ \A l \in LinksTo(graphNodes[k].id) :
                     IF graphNodes[k].type = "doc"
                     THEN graphLinks[l].source = "root"
                     ELSE graphNodes[Find(graphNodes,
                                          graphLinks[l].source)].type = "doc"

\* A document was expanded, then the document list changed and the graph was
\* rebuilt with sections in it.
TreeWitness ==
    /\ ~effectPending
    /\ nRenders = 1
    /\ expandedIds # {}
    /\ Len(graphNodes) >= 5
    /\ Len(graphLinks) = Len(graphNodes) - 1

\* The graph shown is the one the effect built from the current documents
Rebuilt == ~effectPending /\ viewMode = "mindmap"

NodesOfType(t) == { k \in 1..Len(graphNodes) : graphNodes[k].type = t }

\* C16 (Spec): after a rebuild the node list has exactly one root node and,
\* for each document of the list, exactly one node with that document's id,
\* of type doc, and no other doc node, whatever the expansion set.
RootAndDocsPresent ==
    Rebuilt =>
        /\ Cardinality(NodesOfType("root")) = 1
        /\ \A k \in NodesOfType("root") : graphNodes[k].id = "root"
        /\ Cardinality(NodesOfType("doc")) = Len(documents)
        /\ \A d \in 1..Len(documents) :
              Cardinality({ k \in NodesOfType("doc") :
                              graphNodes[k].id = DocId(documents[d], d - 1) }) = 1

\* Two documents, one of them just expanded.
RootAndDocsWitness ==
    /\ Rebuilt
    /\ trip.phase = "expanded"
    /\ Len(documents) = 2
    /\ Cardinality(NodesOfType("doc")) = 2

\* C17 (Spec): after a rebuild, document d's section s has a node, and a dashed
\* link from d's node, exactly if d's id is in the expansion set; the section
\* nodes of an expanded document follow its node in the order of its sections,
\* and there is no other section node.
SectionsIffExpanded ==
    Rebuilt =>
        /\ \A d \in 1..Len(documents) :
              LET docId == DocId(documents[d], d - 1)
                  secs == documents[d].sections
                  at == Find(graphNodes, docId)
              IN \A j \in 1..Len(secs) :
                    LET secId == SecId(docId, secs[j])
                        link == [source |-> docId, target |-> secId,
                                 type |-> "dashed"]
                    IN IF docId \in expandedIds
                       THEN /\ at + j <= Len(graphNodes)
                            /\ graphNodes[at + j].id = secId
                            /\ graphNodes[at + j].type = "section"
                            /\ link \in Range(graphLinks)
                       ELSE /\ Find(graphNodes, secId) = 0
                            /\ link \notin Range(graphLinks)
        /\ Cardinality(NodesOfType("section")) =
              Cardinality(UNION { SectionIdsOf(DocId(documents[d], d - 1)) :
                                    d \in { e \in 1..Len(documents) :
                                              DocId(documents[e], e - 1)
                                                  \in expandedIds } })
        /\ Cardinality(LinksOfType("dashed")) =
              Cardinality(NodesOfType("section"))

\* Two documents are shown, d1 expanded and d2 not.
SectionsWitness ==
    /\ Rebuilt
    /\ Len(documents) = 2
    /\ expandedIds = {"d1"}
    /\ Cardinality(NodesOfType("section")) = 3

\* The distance between the centres of a and b, in coordinate steps
CentreDist(a, b) ==
    Sqrt((a.x - b.x) * (a.x - b.x) + (a.y - b.y) * (a.y - b.y))

\* C18 (SeedSpec), as claimed: when a rebuild creates a section node for a
\* document that already had a node, the section node is handed to the
\* relaxation at 150 pixels (to 1/8 pixel) from that document node's position.
SeededAroundParent ==
    [][(effectPending /\ ~effectPending' /\ viewMode = "mindmap") =>
          \A l \in 1..Len(graphLinks') :
             (/\ graphLinks'[l].type = "dashed"
              /\ Find(graphNodes, graphLinks'[l].target) = 0
              /\ Find(graphNodes, graphLinks'[l].source) # 0) =>
                Abs(CentreDist(relaxIn'[Find(relaxIn', graphLinks'[l].target)],
                               graphNodes[Find(graphNodes, graphLinks'[l].source)])
                    - 150 * Unit) <= 2]_vars

\* C19 (Spec), as claimed: the expansion set changes only in the click on a
\* document node that ends a press and release without a drag, and then by
\* exactly that document's id; no drag changes it.
ExpansionOnlyByClick ==
    [][expandedIds' # expandedIds =>
          /\ clickPending # Null
          /\ Find(graphNodes, clickPending) # 0
          /\ graphNodes[Find(graphNodes, clickPending)].type = "doc"
          /\ (expandedIds' \ expandedIds) \cup (expandedIds \ expandedIds')
                = {clickPending}
          /\ pressTravel = 0]_vars

\* C20 (Spec), as claimed: once a rebuild has removed the node being dragged,
\* the component is no longer in the dragging state for that id.
DragTargetPresent ==
    (Rebuilt /\ draggedNodeId # Null) => Find(graphNodes, draggedNodeId) # 0

\* The links of a list whose two ends are nodes of ns
Attached(ns, links) ==
    SelectSeq(links, LAMBDA l : Find(ns, l.source) # 0 /\ Find(ns, l.target) # 0)

\* C21 (SimSpec): runSimulation on (nodes, links) returns the positions that
\* runSimulation on (nodes, links without those that name a missing node)
\* returns.
DanglingLinksSkipped ==
    relaxK >= 0 =>
        graphNodes = runSimulation(relaxIn, Attached(relaxIn, graphLinks), relaxK)

\* A call of 20 iterations with a link whose source is not in the list, that
\* moved a node.
DanglingLinksWitness ==
    /\ relaxK = 20
    /\ Len(Attached(relaxIn, graphLinks)) < Len(graphLinks)
    /\ graphNodes # relaxIn

\* C22 (SimSpec), as claimed: the repulsion step displaces a node that lies
\* within repulsion range of the root (and not on it) away from the root, and
\* leaves the root where it is.
RootRepels ==
    (relaxK >= 1 /\ Len(relaxIn) = 2) =>
        \A r, k \in 1..2 :
            (/\ relaxIn[r].id = "root"
             /\ relaxIn[k].id # "root"
             /\ ~SamePlace(relaxIn[r], relaxIn[k])
             /\ CentreDist(relaxIn[r], relaxIn[k])
                   < 2 * (relaxIn[r].radius + relaxIn[k].radius + 50) * Unit) =>
                /\ SamePlace(RepulsionLoop(relaxIn, 1, 2)[r], relaxIn[r])
                /\ CentreDist(RepulsionLoop(relaxIn, 1, 2)[k], relaxIn[r])
                      > CentreDist(relaxIn[k], relaxIn[r])

\* The displacement REPULSION / (distSq * 0.1) along the line of centres,
\* applied to a and taken from b
InverseSquarePush(a, b) ==
    LET dx == a.x - b.x
        dy == a.y - b.y
        distSq == dx * dx + dy * dy
        force == RDiv(REPULSION * 10 * Unit * Unit * Unit, distSq)
    IN <<RDiv(dx * force, Sqrt(distSq)), RDiv(dy * force, Sqrt(distSq))>>

\* C23 (SimSpec), as claimed: the repulsion step displaces every two non-root
\* nodes on different points apart by the inverse-square force, however far
\* apart they are.
RepulsionEveryPair ==
    (/\ relaxK >= 1
     /\ Len(relaxIn) = 2
     /\ relaxIn[1].id # "root" /\ relaxIn[2].id # "root"
     /\ ~SamePlace(relaxIn[1], relaxIn[2])) =>
        LET f == InverseSquarePush(relaxIn[1], relaxIn[2])
            after == RepulsionLoop(relaxIn, 1, 2)
        IN /\ after[1].x = relaxIn[1].x + f[1] /\ after[1].y = relaxIn[1].y + f[2]
           /\ after[2].x = relaxIn[2].x - f[1] /\ after[2].y = relaxIn[2].y - f[2]

\* One force application that took `before` to `after` on the nodes i and j:
\* no other node and no root node changed, and if neither is the root the two
\* were displaced by opposite vectors
Balanced(before, after, i, j) ==
    /\ Len(after) = Len(before)
    /\ \A k \in 1..Len(before) :
          (k \notin {i, j} \/ before[k].id = "root") => after[k] = before[k]
    /\ (before[i].id # "root" /\ before[j].id # "root") =>
          /\ after[i].x + after[j].x = before[i].x + before[j].x
          /\ after[i].y + after[j].y = before[i].y + before[j].y

\* C24 (SimSpec): on the nodes given to a call, every single application of
\* the repulsion, of the spring of a link and of the collision displaces two
\* non-root nodes by opposite vectors and never displaces the root.
ForcesSymmetric ==
    relaxK >= 1 =>
        /\ \A i, j \in 1..Len(relaxIn) :
              i < j =>
                 /\ Balanced(relaxIn, RepulsePair(relaxIn, i, j), i, j)
                 /\ Balanced(relaxIn, CollidePair(relaxIn, i, j), i, j)
        /\ \A l \in 1..Len(Attached(relaxIn, graphLinks)) :
              Balanced(relaxIn,
                       SpringLink(relaxIn, Attached(relaxIn, graphLinks)[l]),
                       Find(relaxIn, Attached(relaxIn, graphLinks)[l].source),
                       Find(relaxIn, Attached(relaxIn, graphLinks)[l].target))

\* A call on the root, a document and its section, joined by links: the
\* repulsion and the spring displace the two non-root nodes, and the spring
\* of the root's link displaces the document.
ForcesSymmetricWitness ==
    /\ relaxK >= 1
    /\ Len(relaxIn) = 3
    /\ relaxIn[1].id = "root"
    /\ RepulsePair(relaxIn, 2, 3) # relaxIn
    /\ Len(graphLinks) >= 2
    /\ graphLinks[1].source = "root"
    /\ SpringLink(relaxIn, graphLinks[1]) # relaxIn
    /\ graphLinks[2].source # "root"
    /\ SpringLink(relaxIn, graphLinks[2]) # relaxIn

\* C25 (Spec), as claimed: the first build, from an empty previous node set,
\* relaxes with a larger budget than the 20 steps of an incremental update.
FirstBuildBudget ==
    [][(effectPending /\ ~effectPending' /\ viewMode = "mindmap"
        /\ graphNodes = <<>>) => relaxK' > 20]_vars

\* One relaxation step on the links of the state: repulsion, then spring,
\* then collision
ThreeForces(ns) ==
    CollisionLoop(SpringLoop(RepulsionLoop(ns, 1, 2), graphLinks, 1), 1, 2)

\* C26 (SimSpec): a call with budget k returns the nodes after exactly k steps
\* of repulsion, spring and collision, whether or not they have come to rest;
\* a budget of zero or less returns them as given.
BoundedRelaxation ==
    /\ relaxK = 0 => graphNodes = relaxIn
    /\ relaxK = 1 => graphNodes = ThreeForces(relaxIn)
    /\ relaxK = 2 => graphNodes = ThreeForces(ThreeForces(relaxIn))
    /\ relaxK = 3 => graphNodes = ThreeForces(ThreeForces(ThreeForces(relaxIn)))
    /\ relaxK > 3 =>
          graphNodes = ThreeForces(runSimulation(relaxIn, graphLinks, relaxK - 1))

\* A call with budget 2 that returned nodes still in motion: a third step
\* would move them again.
BoundedRelaxationWitness ==
    /\ relaxK = 2
    /\ graphNodes # relaxIn
    /\ ThreeForces(graphNodes) # graphNodes

\* C27 (Spec), as claimed: in every reachable state the zoom factor lies in
\* [0.1, 3.0] (in thousandths: 100..3000).
ZoomInRange == zoom \in 100..3000

\* The place of the root in a list that holds it
RootPlace(ns) == <<ns[Find(ns, "root")].x, ns[Find(ns, "root")].y>>

\* C28 (Spec): the root is created at (0, 0) and never removed; its position
\* changes only in a pointer move while the root is the dragged node and no
\* canvas drag is on, and such a move displaces it by the pointer delta
\* divided by the zoom, as it does any dragged node.  No rebuild, relaxation,
\* toggle, pan, zoom or drag of another node changes it.
RootMovesOnlyByDrag ==
    [][/\ (Find(graphNodes, "root") = 0 /\ Find(graphNodes', "root") # 0) =>
             RootPlace(graphNodes') = <<0, 0>>
       /\ Find(graphNodes, "root") # 0 =>
             /\ Find(graphNodes', "root") # 0
             /\ RootPlace(graphNodes') # RootPlace(graphNodes) =>
                   /\ draggedNodeId = "root"
                   /\ ~isDraggingCanvas
                   /\ \E p \in ClientPoints : handleMouseMove(p)
             /\ \A p \in ClientPoints :
                   (handleMouseMove(p) /\ draggedNodeId = "root"
                    /\ ~isDraggingCanvas) =>
                       RootPlace(graphNodes') =
                           <<RootPlace(graphNodes)[1] + NodeDelta(p.x - lastPos.x, zoom),
                             RootPlace(graphNodes)[2] + NodeDelta(p.y - lastPos.y, zoom)>>
      ]_vars

\* The root was dragged off the origin, and a rebuild since then took it over
\* and relaxed the graph without moving it.
RootMovesOnlyByDragWitness ==
    /\ Find(graphNodes, "root") # 0
    /\ RootPlace(graphNodes) # <<0, 0>>
    /\ Find(relaxIn, "root") # 0
    /\ RootPlace(relaxIn) = RootPlace(graphNodes)
    /\ ~effectPending

\* C29 (Spec): while the view mode is not mindmap, a change of the documents
\* and the run of the effect that follows it leave nodes, positions and links
\* as they are; a switch to mindmap schedules the effect, and its run in
\* mindmap mode builds from the current documents and expansion set, takes
\* over by id every node that is kept, relaxes the result for 20 steps, and
\* ends in a state with the root, every document and the sections of exactly
\* the expanded documents.
ViewModeGatesRebuild ==
    [][/\ (viewMode # "mindmap"
            /\ (documents' # documents \/ (effectPending /\ ~effectPending'))) =>
               (graphNodes' = graphNodes /\ graphLinks' = graphLinks)
       /\ (viewMode # "mindmap" /\ viewMode' = "mindmap") => effectPending'
       /\ (viewMode = "mindmap" /\ effectPending /\ ~effectPending') =>
             /\ \A k \in 1..Len(graphNodes) :
                   Find(relaxIn', graphNodes[k].id) # 0 =>
                       relaxIn'[Find(relaxIn', graphNodes[k].id)] =
                           graphNodes[Find(graphNodes, graphNodes[k].id)]
             /\ graphNodes' = runSimulation(relaxIn', graphLinks', 20)
             /\ NodeIds(graphNodes') =
                   {"root"}
                   \cup { DocId(documents[d], d - 1) : d \in 1..Len(documents) }
                   \cup UNION { { SecId(DocId(documents[d], d - 1),
                                        documents[d].sections[j]) :
                                    j \in 1..Len(documents[d].sections) } :
                                d \in { e \in 1..Len(documents) :
                                          DocId(documents[e], e - 1) \in expandedIds } }
             /\ Len(graphNodes') = Cardinality(NodeIds(graphNodes'))
      ]_vars

\* Outside mindmap mode the effect has run after a change of the documents,
\* and the graph still shows the former documents.
ViewModeGatesWitness ==
    /\ viewMode # "mindmap"
    /\ ~effectPending
    /\ Len(graphNodes) > 0
    /\ Cardinality(NodesOfType("doc")) # Len(documents)

\* C30 (FsSpec), as claimed: in every state of a guest session each node with
\* a parent id has that parent in the tree and is listed among its children,
\* and each id in a children list is a node of the tree whose parent id is
\* the listing node.
FileTreeConsistent ==
    \A n \in DOMAIN fileSystem :
        /\ fileSystem[n].parentId # Null =>
              /\ fileSystem[n].parentId \in DOMAIN fileSystem
              /\ n \in Range(fileSystem[fileSystem[n].parentId].children)
        /\ \A c \in Range(fileSystem[n].children) :
              /\ c \in DOMAIN fileSystem
              /\ fileSystem[c].parentId = n

====
